---- MODULE Spec2Model ----
(***************************************************************************)
(* The message-stream controller of prompt-pond: the useChat hook          *)
(* (sendMessage, stopGeneration, clearMessages, isStreaming) together with *)
(* the network events its suspended sendMessage calls wait for.            *)
(*                                                                         *)
(* Text is a sequence of one-character strings.  The JSON envelope         *)
(*     {"choices":[{"delta":{"content":"X"}}]}                             *)
(* is written  { X }  (the characters "{", those of X, "}"), so that       *)
(* JSON.parse is a real partial function: it fails on a truncated or       *)
(* malformed payload and succeeds on a complete one.                       *)
(***************************************************************************)
EXTENDS Integers, Sequences, FiniteSets, TLC

\* Number of sendMessage calls that get past the empty-input check.
MaxTurns == 2

VARIABLES
    messages,     \* useState<Message[]>: the transcript, all queued updaters applied
    rendered,     \* the records of the `messages` value of the last render, which
                  \* sendMessage closes over, that pass the filter of the request
    ref,          \* abortControllerRef.current: 0 is null, t is the controller made by turn t
    aborted,      \* the AbortControllers whose signal has been aborted
    toasts,       \* number of toast() notifications emitted
    nturns,       \* number of turns started so far
    pc,           \* per turn: where the async sendMessage call is suspended
    outcome,      \* per turn: how the call ended
    acc,          \* per turn: the local accumulatedContent (empty once the call has ended)
    body,         \* per turn: which response body the reader of the call delivers, as far
                  \* as the chunks read tell ("empty" until the first chunk)
    nread,        \* per turn: how many chunks of it have been read
    userText,     \* per turn: the trimmed content of the user record it appended
    stopAcc,      \* per turn in flight: accumulatedContent when stopGeneration was first
                  \* called during it
    cleared,      \* per turn: clearMessages was called while the call was in flight
    lastOp        \* the last step when it was a sendMessage or stopGeneration call: which
                  \* call, its argument and the request it issued; Other after any other step

vars == <<messages, rendered, ref, aborted, toasts, nturns, pc, outcome, acc, body, nread,
          userText, stopAcc, cleared, lastOp>>

Turns == 1..MaxTurns

(***************************************************************************)
(* Text helpers                                                            *)
(***************************************************************************)
NL == "\n"

\* The characters String.prototype.trim removes (those the model's alphabet has).
WhiteSpace == {" ", NL, "\t"}

RECURSIVE TrimStart(_)
TrimStart(s) ==
    IF s = <<>> \/ Head(s) \notin WhiteSpace THEN s ELSE TrimStart(Tail(s))

RECURSIVE TrimEnd(_)
TrimEnd(s) ==
    IF s = <<>> \/ s[Len(s)] \notin WhiteSpace THEN s ELSE TrimEnd(SubSeq(s, 1, Len(s) - 1))

\* String.prototype.trim
Trim(s) == TrimEnd(TrimStart(s))

\* String.prototype.startsWith
StartsWith(s, p) == Len(s) >= Len(p) /\ SubSeq(s, 1, Len(p)) = p

\* String.prototype.split('\n'): "a\nb\n" gives "a", "b", "".
RECURSIVE Split(_)
Split(s) ==
    IF \A i \in 1..Len(s) : s[i] # NL
    THEN <<s>>
    ELSE LET i == CHOOSE k \in 1..Len(s) : s[k] = NL /\ \A j \in 1..(k - 1) : s[j] # NL
         IN  <<SubSeq(s, 1, i - 1)>> \o Split(SubSeq(s, i + 1, Len(s)))

(***************************************************************************)
(* Message records and the transcript updaters passed to setMessages       *)
(***************************************************************************)
\* Date.now().toString() + Math.random(): a fresh id per record.
UserId(t) == 2 * t - 1

\* Date.now().toString() + Math.random() + '_assistant'
AssistantId(t) == 2 * t

\* isStreaming is optional: a user record has none, and every use of it is a
\* truthiness test, so FALSE stands for the absent field.
UserMessage(t, content) ==
    [id |-> UserId(t), role |-> "user", content |-> Trim(content), isStreaming |-> FALSE]

AssistantPlaceholder(t) ==
    [id |-> AssistantId(t), role |-> "assistant", content |-> <<>>, isStreaming |-> TRUE]

\* Variant: an append that puts the record in front.
PrependMessage(prev, message) == <<message>> \o prev

\* prev => [...prev, message]
AppendMessage(prev, message) == Append(prev, message)

\* Variant: an update that inserts the record when no record has the id.
UpsertContent(prev, id, content) ==
    IF \E i \in 1..Len(prev) : prev[i].id = id
    THEN [i \in 1..Len(prev) |->
            IF prev[i].id = id
            THEN [prev[i] EXCEPT !.content = content, !.isStreaming = TRUE]
            ELSE prev[i]]
    ELSE Append(prev, [id |-> id, role |-> "assistant", content |-> content,
                       isStreaming |-> TRUE])

\* Variant: an update that does not look at the id.
UpdateAllContent(prev, id, content) ==
    [i \in 1..Len(prev) |->
        IF prev[i].role = "assistant"
        THEN [prev[i] EXCEPT !.content = content, !.isStreaming = TRUE]
        ELSE prev[i]]

\* prev.map(msg => msg.id === id ? {...msg, content, isStreaming: true} : msg)
UpdateContent(prev, id, content) ==
    [i \in 1..Len(prev) |->
        IF prev[i].id = id
        THEN [prev[i] EXCEPT !.content = content, !.isStreaming = TRUE]
        ELSE prev[i]]

\* Variant: a finalization that leaves the transcript as it is.
MarkNone(prev, id) == prev

\* Variant: a finalization that does not look at the id.
MarkAllComplete(prev, id) ==
    [i \in 1..Len(prev) |-> [prev[i] EXCEPT !.isStreaming = FALSE]]

\* prev.map(msg => msg.id === id ? {...msg, isStreaming: false} : msg)
MarkComplete(prev, id) ==
    [i \in 1..Len(prev) |->
        IF prev[i].id = id THEN [prev[i] EXCEPT !.isStreaming = FALSE] ELSE prev[i]]

\* Variant: a removal that drops the last record instead of the one with the id.
RemoveLast(prev, id) == SubSeq(prev, 1, Len(prev) - 1)

\* prev.filter(msg => msg.id !== id)
RemoveMessage(prev, id) == SelectSeq(prev, LAMBDA msg : msg.id # id)

\* messages.some(msg => msg.isStreaming)
isStreaming(msgs) == \E i \in 1..Len(msgs) : msgs[i].isStreaming

\* Variant: an empty-input check that does not trim.
IsEmpty(content) == content = <<>>

\* !content.trim()
IsBlank(content) == Trim(content) = <<>>

\* Variant: a filter that keeps every assistant record with content, streaming or not.
ApiFilterKeepsStreaming(msgs) ==
    SelectSeq(msgs, LAMBDA msg : msg.role = "user" \/ Trim(msg.content) # <<>>)

\* .filter(msg => msg.role === 'user' || (!msg.isStreaming && msg.content.trim()))
ApiFilter(msgs) ==
    SelectSeq(msgs, LAMBDA msg :
        msg.role = "user" \/ (~msg.isStreaming /\ Trim(msg.content) # <<>>))

\* .map(msg => ({ role: msg.role, content: msg.content }))
ApiMap(msgs) == [i \in 1..Len(msgs) |-> [role |-> msgs[i].role, content |-> msgs[i].content]]

\* [...messages, userMessage].filter(...).map(...): the filter works record by
\* record, so the closure's part of what it keeps is ApiFilter of the closure.
ApiMessages(closureKept, userMessage) ==
    ApiMap(closureKept \o ApiFilter(<<userMessage>>))

(***************************************************************************)
(* The decoding of one chunk (the body of the read loop)                   *)
(***************************************************************************)
DataPrefix == <<"d", "a", "t", "a", ":", " ">>

DoneSentinel == <<"[", "D", "O", "N", "E", "]">>

Letters == {"H", "e", "l", "o", "x"}

\* JSON.parse(data) returns (does not throw) and yields an envelope.
JsonParses(data) ==
    /\ Len(data) >= 2
    /\ data[1] = "{"
    /\ data[Len(data)] = "}"
    /\ \A i \in 2..(Len(data) - 1) : data[i] \in Letters

\* parsed.choices?.[0]?.delta?.content || ''
DeltaContent(data) == SubSeq(data, 2, Len(data) - 1)

\* chunk.split('\n').filter(line => line.trim() !== '')
Lines(chunk) == SelectSeq(Split(chunk), LAMBDA line : Trim(line) # <<>>)

\* The fragment one line contributes; the empty text when it contributes none.
LineContent(line) ==
    IF ~StartsWith(line, DataPrefix) THEN <<>>
    ELSE LET data == SubSeq(line, Len(DataPrefix) + 1, Len(line))
         IN  IF data = DoneSentinel THEN <<>>
             ELSE IF JsonParses(data) THEN DeltaContent(data)
             ELSE <<>>

\* Variant: a line loop that a line without a fragment ends (break, not skip).
RECURSIVE ProcessLinesStopping(_, _, _, _)
ProcessLinesStopping(lines, accumulated, prev, id) ==
    IF lines = <<>> THEN [acc |-> accumulated, msgs |-> prev]
    ELSE LET content == LineContent(Head(lines))
         IN  IF content # <<>>
             THEN ProcessLinesStopping(Tail(lines), accumulated \o content,
                                       UpdateContent(prev, id, accumulated \o content), id)
             ELSE [acc |-> accumulated, msgs |-> prev]

\* Variant: a line loop that puts each fragment in front of the accumulated content.
RECURSIVE ProcessLinesPrepending(_, _, _, _)
ProcessLinesPrepending(lines, accumulated, prev, id) ==
    IF lines = <<>> THEN [acc |-> accumulated, msgs |-> prev]
    ELSE LET content == LineContent(Head(lines))
         IN  IF content # <<>>
             THEN ProcessLinesPrepending(Tail(lines), content \o accumulated,
                                         UpdateContent(prev, id, content \o accumulated), id)
             ELSE ProcessLinesPrepending(Tail(lines), accumulated, prev, id)

\* for (const line of lines) { ... accumulatedContent += content; setMessages(...) }
RECURSIVE ProcessLines(_, _, _, _)
ProcessLines(lines, accumulated, prev, id) ==
    IF lines = <<>> THEN [acc |-> accumulated, msgs |-> prev]
    ELSE LET content == LineContent(Head(lines))
         IN  IF content # <<>>
             THEN ProcessLines(Tail(lines), accumulated \o content,
                               UpdateContent(prev, id, accumulated \o content), id)
             ELSE ProcessLines(Tail(lines), accumulated, prev, id)

(***************************************************************************)
(* The catch and finally blocks                                            *)
(***************************************************************************)
\* Variant: a catch block that finalizes the placeholder whatever the error.
CatchKeepsPlaceholder(prev, id, errorName) ==
    [i \in 1..Len(prev) |->
        IF prev[i].id = id THEN [prev[i] EXCEPT !.isStreaming = FALSE] ELSE prev[i]]

\* Variant: a catch block that leaves the transcript alone when the call was aborted.
CatchIgnoresAbort(prev, id, errorName) ==
    IF errorName = "AbortError" THEN prev ELSE RemoveMessage(prev, id)

\* error.name === 'AbortError' ? mark complete : remove the placeholder
CatchMessages(prev, id, errorName) ==
    IF errorName = "AbortError" THEN MarkComplete(prev, id) ELSE RemoveMessage(prev, id)

\* Variant: a catch block that notifies before it looks at the error's name.
CatchAlwaysToasts(errorName) == 1

\* toast({...}) is called in the non-abort branch only
CatchToasts(errorName) == IF errorName = "AbortError" THEN 0 ELSE 1

\* Variant: a call that ends without clearing the ref.
FinallyKeepsRef(current) == current

\* finally { abortControllerRef.current = null }
FinallyRef(current) == 0

\* if (abortControllerRef.current) abortControllerRef.current.abort()
AbortTargets(current) == IF current # 0 THEN {current} ELSE {}

(***************************************************************************)
(* Inputs: the texts the presentation layer submits and the response       *)
(* bodies, already cut into the chunks reader.read() delivers              *)
(***************************************************************************)
Texts == { <<>>, <<" ">>, <<" ", "h", "i", NL>> }

DataLine(fragment) == DataPrefix \o <<"{">> \o fragment \o <<"}", NL>>

DoneLine == DataPrefix \o DoneSentinel \o <<NL>>

Hel == <<"H", "e", "l">>

Lo == <<"l", "o">>

\* The two content lines of the reply "Hello".
HelloLines == DataLine(Hel) \o DataLine(Lo)

CutAt(text, k) == <<SubSeq(text, 1, k), SubSeq(text, k + 1, Len(text))>>

\* A cut inside the JSON payload of the first line.
CutPoint == Len(DataPrefix) + 2

\* A line with the prefix whose payload is not JSON, and a line without the prefix.
MalformedLine == DataPrefix \o <<"{", "x", NL>>

NoPrefixLine == <<"x", NL>>

\* The response bodies, by name: one line per chunk, a line split across two
\* chunks, a body that ends at once, content lines after the sentinel (in its
\* chunk and in the next), and a chunk of several lines of which two carry content.
Responses == {"perLine", "split", "empty", "afterDone", "malformed"}

Chunks(response) ==
    CASE response = "perLine"   -> <<DataLine(Hel), DataLine(Lo), DoneLine>>
      [] response = "split"     -> CutAt(HelloLines, CutPoint)
      [] response = "empty"     -> <<>>
      [] response = "afterDone" -> <<DoneLine \o DataLine(Hel), DataLine(Lo)>>
      [] response = "malformed" ->
            <<DataLine(Hel) \o MalformedLine \o NoPrefixLine \o DataLine(Lo)>>

\* Why a fetch that was not aborted fails: rejected promise, !response.ok, no reader.
FetchFailures == {"network", "status", "noReader"}

\* error.name of what each failure throws
ErrorName(failure) == IF failure = "network" THEN "TypeError" ELSE "Error"

(***************************************************************************)
(* State machine                                                           *)
(***************************************************************************)
Other == [op |-> "other", turn |-> 0, text |-> <<>>, request |-> <<>>]

Called(name, t, content, apiMessages) ==
    [op |-> name, turn |-> t, text |-> content, request |-> apiMessages]

Init ==
    /\ messages = <<>>
    /\ rendered = <<>>
    /\ ref = 0
    /\ aborted = {}
    /\ toasts = 0
    /\ nturns = 0
    /\ pc = [t \in Turns |-> "idle"]
    /\ outcome = [t \in Turns |-> "none"]
    /\ acc = [t \in Turns |-> <<>>]
    /\ body = [t \in Turns |-> "empty"]
    /\ nread = [t \in Turns |-> 0]
    /\ userText = [t \in Turns |-> <<>>]
    /\ stopAcc = [t \in Turns |-> <<>>]
    /\ cleared = [t \in Turns |-> FALSE]
    /\ lastOp = Other

InFlight(t) == pc[t] \in {"fetch", "read"}

\* sendMessage(content), up to its first suspension at `await fetch`.
SendMessage(content) ==
    /\ IF IsBlank(content)
       THEN /\ lastOp' = Called("sendMessage", 0, content, <<>>)
            /\ UNCHANGED <<messages, ref, aborted, toasts, nturns, pc, outcome, acc,
                            body, nread, userText, stopAcc, cleared>>
       ELSE LET t == nturns + 1
                userMessage == UserMessage(t, content)
            IN  /\ nturns < MaxTurns
                /\ nturns' = t
                /\ messages' = AppendMessage(AppendMessage(messages, userMessage),
                                             AssistantPlaceholder(t))
                /\ ref' = t
                /\ lastOp' = Called("sendMessage", t, content,
                                     ApiMessages(rendered, userMessage))
                /\ userText' = [userText EXCEPT ![t] = userMessage.content]
                /\ pc' = [pc EXCEPT ![t] = "fetch"]
                /\ UNCHANGED <<aborted, toasts, outcome, acc, body, nread, stopAcc, cleared>>

\* The rest of a call that ends: the final setMessages or the catch block, then finally.
EndTurn(t, how, msgs, notified) ==
    /\ messages' = msgs
    /\ toasts' = toasts + notified
    /\ ref' = FinallyRef(ref)
    /\ pc' = [pc EXCEPT ![t] = "done"]
    /\ outcome' = [outcome EXCEPT ![t] = how]
    /\ acc' = [acc EXCEPT ![t] = <<>>]
    /\ body' = [body EXCEPT ![t] = "empty"]
    /\ nread' = [nread EXCEPT ![t] = 0]
    /\ stopAcc' = [stopAcc EXCEPT ![t] = <<>>]
    /\ UNCHANGED <<aborted, nturns, userText, cleared>>

\* fetch resolves with response.ok and a body, of which nothing has arrived yet:
\* the call suspends at reader.read().
FetchOk(t) ==
    /\ pc[t] = "fetch"
    /\ t \notin aborted
    /\ pc' = [pc EXCEPT ![t] = "read"]
    /\ acc' = [acc EXCEPT ![t] = <<>>]
    /\ lastOp' = Other
    /\ UNCHANGED <<messages, ref, aborted, toasts, nturns, outcome, body, nread, userText,
                   stopAcc, cleared>>

\* fetch rejects, or resolves with !response.ok or without a reader.
FetchFail(t, failure) ==
    /\ pc[t] = "fetch"
    /\ t \notin aborted
    /\ lastOp' = Other
    /\ EndTurn(t, "failed", CatchMessages(messages, AssistantId(t), ErrorName(failure)),
               CatchToasts(ErrorName(failure)))

\* reader.read() resolves with the next chunk of the body: decode it and apply its
\* fragments.  The first chunk that arrives tells which body the server sends.
ReadChunk(t, response) ==
    /\ pc[t] = "read"
    /\ t \notin aborted
    /\ nread[t] > 0 => response = body[t]
    /\ nread[t] < Len(Chunks(response))
    /\ LET chunk == Chunks(response)[nread[t] + 1]
           r == ProcessLines(Lines(chunk), acc[t], messages, AssistantId(t))
       IN  /\ messages' = r.msgs
           /\ acc' = [acc EXCEPT ![t] = r.acc]
    /\ body' = [body EXCEPT ![t] = response]
    /\ nread' = [nread EXCEPT ![t] = nread[t] + 1]
    /\ lastOp' = Other
    /\ UNCHANGED <<ref, aborted, toasts, nturns, pc, outcome, userText, stopAcc, cleared>>

\* reader.read() resolves with done (after the last chunk; at once when the body is
\* empty): leave the loop and mark the record complete.
ReadDone(t) ==
    /\ pc[t] = "read"
    /\ t \notin aborted
    /\ nread[t] = Len(Chunks(body[t]))
    /\ lastOp' = Other
    /\ EndTurn(t, "completed", MarkComplete(messages, AssistantId(t)), 0)

\* reader.read() rejects with a network error.
ReadError(t) ==
    /\ pc[t] = "read"
    /\ t \notin aborted
    /\ lastOp' = Other
    /\ EndTurn(t, "failed", CatchMessages(messages, AssistantId(t), "TypeError"),
               CatchToasts("TypeError"))

\* The signal of this call's controller was aborted: the pending fetch or read
\* rejects with an AbortError.
Aborted(t) ==
    /\ InFlight(t)
    /\ t \in aborted
    /\ lastOp' = Other
    /\ EndTurn(t, "cancelled", CatchMessages(messages, AssistantId(t), "AbortError"),
               CatchToasts("AbortError"))

StopGeneration ==
    /\ aborted' = aborted \cup AbortTargets(ref)
    /\ stopAcc' = [t \in Turns |->
                      IF InFlight(t) /\ stopAcc[t] = <<>> THEN <<acc[t]>> ELSE stopAcc[t]]
    /\ lastOp' = Called("stopGeneration", 0, <<>>, <<>>)
    /\ UNCHANGED <<messages, ref, toasts, nturns, pc, outcome, acc, body, nread,
                   userText, cleared>>

ClearMessages ==
    /\ messages' = <<>>
    /\ cleared' = [t \in Turns |-> cleared[t] \/ InFlight(t)]
    /\ lastOp' = Other
    /\ UNCHANGED <<ref, aborted, toasts, nturns, pc, outcome, acc, body, nread, userText,
                   stopAcc>>

\* React renders the hook again: later calls close over the current transcript.
Render ==
    /\ rendered # ApiFilter(messages)
    /\ rendered' = ApiFilter(messages)
    /\ lastOp' = Other
    /\ UNCHANGED <<messages, ref, aborted, toasts, nturns, pc, outcome, acc, body, nread,
                   userText, stopAcc, cleared>>

\* The render that follows a step has happened by the time the next step runs.
Rerendered == rendered' = ApiFilter(messages')

\* React has rendered the hook again before the next call or network event: every
\* call closes over the current transcript.
Next ==
    \/ \E content \in Texts : SendMessage(content) /\ Rerendered
    \/ \E t \in Turns : FetchOk(t) /\ Rerendered
    \/ \E t \in Turns, failure \in FetchFailures : FetchFail(t, failure) /\ Rerendered
    \/ \E t \in Turns, response \in Responses : ReadChunk(t, response) /\ Rerendered
    \/ \E t \in Turns : ReadDone(t) /\ Rerendered
    \/ \E t \in Turns : ReadError(t) /\ Rerendered
    \/ \E t \in Turns : Aborted(t) /\ Rerendered
    \/ StopGeneration /\ Rerendered
    \/ ClearMessages /\ Rerendered

Spec == Init /\ [][Next]_vars

\* The render is a step of its own, which a call or a network event may precede:
\* a call then closes over the transcript of an earlier render.  `rendered` is
\* read by sendMessage only, to build the request.
NextStale ==
    \/ \E content \in Texts : SendMessage(content) /\ UNCHANGED rendered
    \/ \E t \in Turns : FetchOk(t) /\ UNCHANGED rendered
    \/ \E t \in Turns, failure \in FetchFailures : FetchFail(t, failure) /\ UNCHANGED rendered
    \/ \E t \in Turns, response \in Responses : ReadChunk(t, response) /\ UNCHANGED rendered
    \/ \E t \in Turns : ReadDone(t) /\ UNCHANGED rendered
    \/ \E t \in Turns : ReadError(t) /\ UNCHANGED rendered
    \/ \E t \in Turns : Aborted(t) /\ UNCHANGED rendered
    \/ StopGeneration /\ UNCHANGED rendered
    \/ ClearMessages /\ UNCHANGED rendered
    \/ Render

SpecStale == Init /\ [][NextStale]_vars

\* The network and the event loop are fair to every call: an aborted signal
\* rejects the pending fetch or read with an AbortError, a pending fetch that can
\* resolve does, and a pending read delivers the next chunk or done; the rest of
\* the call then runs.
Fairness ==
    \A t \in Turns :
        /\ WF_vars(Aborted(t) /\ Rerendered)
        /\ WF_vars(FetchOk(t) /\ Rerendered)
        /\ WF_vars((\E response \in Responses : ReadChunk(t, response)) /\ Rerendered)
        /\ WF_vars(ReadDone(t) /\ Rerendered)

SpecFair == Spec /\ Fairness

(***************************************************************************)
(* Properties                                                              *)
(***************************************************************************)
CountId(msgs, id) == Cardinality({i \in 1..Len(msgs) : msgs[i].id = id})

CountRole(msgs, role) == Cardinality({i \in 1..Len(msgs) : msgs[i].role = role})

AllWhiteSpace(text) == \A i \in 1..Len(text) : text[i] \in WhiteSpace

NoneInFlight == \A t \in Turns : ~InFlight(t)

\* The step in which the call of turn t ends.
Ends(t) == outcome[t] = "none" /\ outcome'[t] # "none"

\* The first n chunks, joined.
RECURSIVE Joined(_, _)
Joined(chunks, n) == IF n = 0 THEN <<>> ELSE Joined(chunks, n - 1) \o chunks[n]

\* The fragments of the lines of a text, concatenated in line order.
RECURSIVE ContentOf(_)
ContentOf(lines) ==
    IF lines = <<>> THEN <<>> ELSE LineContent(Head(lines)) \o ContentOf(Tail(lines))

EndsWithNewline(text) == text # <<>> /\ text[Len(text)] = NL

\* C1: in every transcript snapshot at most one record has streaming = true.
C1_AtMostOneStreaming ==
    Cardinality({i \in 1..Len(messages) : messages[i].isStreaming}) <= 1

\* C2: a turn during which stopGeneration was called after k fragments ends with
\* its placeholder in the transcript (when no clearMessages emptied it meanwhile),
\* holding exactly those k fragments and streaming = false.
C2_StopKeepsPartial ==
    [][\A t \in Turns :
          (Ends(t) /\ stopAcc[t] # <<>> /\ ~cleared[t]) =>
              \E i \in 1..Len(messages') :
                  /\ messages'[i].id = AssistantId(t)
                  /\ messages'[i].content = stopAcc[t][1]
                  /\ ~messages'[i].isStreaming]_vars

\* C3: the step in which a turn fails removes its placeholder from the transcript
\* and leaves the user record of the same call in it, unchanged.
C3_FailureRemovesOnlyPlaceholder ==
    [][\A t \in Turns :
          (Ends(t) /\ outcome'[t] = "failed") =>
              /\ CountId(messages', AssistantId(t)) = 0
              /\ \A i \in 1..Len(messages) :
                    messages[i].id = UserId(t) =>
                        \E j \in 1..Len(messages') : messages'[j] = messages[i]]_vars

C3_Witness ==
    \E t \in Turns :
        /\ outcome[t] = "failed"
        /\ ~cleared[t]
        /\ CountId(messages, AssistantId(t)) = 0
        /\ \E i \in 1..Len(messages) :
              messages[i].id = UserId(t) /\ messages[i].content = userText[t]
        /\ \E i \in 1..Len(messages) : messages[i].role = "assistant"

\* C4: the number of notifications emitted equals the number of failed turns.
C4_OneToastPerFailedTurn ==
    toasts = Cardinality({t \in Turns : outcome[t] = "failed"})

C4_Witness ==
    /\ toasts = 1
    /\ \E t \in Turns : outcome[t] = "failed"
    /\ \E t \in Turns : outcome[t] = "cancelled"

\* C5: when a line was split across two consecutive chunks and the second chunk
\* completed it, the accumulated content holds the fragment of every complete
\* line received so far, each once.
C5_SplitLineYieldsFragmentOnce ==
    \A t \in Turns :
        (/\ pc[t] = "read"
         /\ nread[t] >= 2
         /\ ~EndsWithNewline(Chunks(body[t])[nread[t] - 1])
         /\ EndsWithNewline(Chunks(body[t])[nread[t]])) =>
            acc[t] = ContentOf(Lines(Joined(Chunks(body[t]), nread[t])))

\* C6: a sendMessage call with empty or whitespace-only text changes nothing: no
\* transcript change, no request, no request handle, no notification.
C6_BlankSendIsNoOp ==
    [][(lastOp'.op = "sendMessage" /\ AllWhiteSpace(lastOp'.text)) =>
          /\ UNCHANGED <<messages, rendered, ref, aborted, toasts, nturns, pc, outcome>>
          /\ lastOp'.request = <<>>]_vars

C6_Witness ==
    /\ lastOp.op = "sendMessage"
    /\ lastOp.text = <<" ">>
    /\ messages # <<>>
    /\ \E t \in Turns : InFlight(t)

\* When a turn ends whose records no clearMessages removed meanwhile, the transcript
\* has one assistant record of the turn if it completed or was cancelled, none if
\* it failed.
TerminalAssistantCount ==
    \A t \in Turns :
        (Ends(t) /\ ~cleared[t]) =>
            CountId(messages', AssistantId(t)) = IF outcome'[t] = "failed" THEN 0 ELSE 1

\* The step appended exactly one user record.
AppendsOneUserRecord ==
    CountRole(messages', "user") = CountRole(messages, "user") + 1

\* C7 as stated: every sendMessage call with non-empty text appends exactly one
\* user record, and an ended turn has one assistant record, or none if it failed.
C7_NonEmptyTextAppends ==
    [][/\ (lastOp'.op = "sendMessage" /\ lastOp'.text # <<>>) => AppendsOneUserRecord
       /\ TerminalAssistantCount]_vars

\* C7 amended: every sendMessage call whose text is non-empty after trimming
\* appends exactly one user record, and an ended turn has one assistant record,
\* or none if it failed.
C7_NonBlankTextAppends ==
    [][/\ (lastOp'.op = "sendMessage" /\ ~AllWhiteSpace(lastOp'.text)) =>
              AppendsOneUserRecord
       /\ TerminalAssistantCount]_vars

C7_Witness ==
    /\ \E t \in Turns : outcome[t] = "failed" /\ ~cleared[t]
    /\ \E t \in Turns : outcome[t] = "completed" /\ ~cleared[t]
    /\ CountRole(messages, "user") = 2
    /\ \E i \in 1..Len(messages) :
          messages[i].role = "assistant" /\ messages[i].content = Hel \o Lo
    /\ CountRole(messages, "assistant") = 1

\* C8: once clearMessages was called with a turn in flight, no later step of that
\* turn puts a record of it back: the transcript holds no record of the turn.
C8_ClearedTurnStaysAbsent ==
    \A t \in Turns :
        cleared[t] =>
            CountId(messages, UserId(t)) + CountId(messages, AssistantId(t)) = 0

C8_Witness ==
    /\ \E t \in Turns : cleared[t] /\ outcome[t] = "completed"
    /\ \E t \in Turns : cleared[t] /\ outcome[t] = "failed"

\* C9: a stopGeneration call signals the cancellation token of every request that
\* is in flight.
C9_StopSignalsEveryInFlight ==
    lastOp.op = "stopGeneration" => \A t \in Turns : InFlight(t) => t \in aborted

\* C10: stopGeneration with no request in flight is a no-op: transcript, request
\* handle, cancellation tokens and notifications stay as they are.
C10_IdleStopIsNoOp ==
    [][(lastOp'.op = "stopGeneration" /\ NoneInFlight) =>
          UNCHANGED <<messages, rendered, ref, aborted, toasts, nturns, pc, outcome>>]_vars

C10_Witness ==
    /\ lastOp.op = "stopGeneration"
    /\ NoneInFlight
    /\ ref = 0
    /\ \E t \in Turns : outcome[t] = "completed"
    /\ \E t \in Turns : outcome[t] = "cancelled"

\* C11: the step in which a sendMessage call that got past the empty-input check
\* ends (completed, cancelled or failed) leaves the request handle null.
C11_HandleNullAfterEnd ==
    [][\A t \in Turns : Ends(t) => ref' = 0]_vars

C11_Witness ==
    /\ ref = 0
    /\ \E t \in Turns : outcome[t] = "cancelled"
    /\ \E t \in Turns : InFlight(t) /\ pc[t] = "read"

\* The lines the loop has gone through in the first n chunks, in order.
RECURSIVE DecodedLines(_, _)
DecodedLines(chunks, n) ==
    IF n = 0 THEN <<>> ELSE DecodedLines(chunks, n - 1) \o Lines(chunks[n])

IsDoneLine(line) == line = DataPrefix \o DoneSentinel

\* The lines before the first sentinel line.
RECURSIVE BeforeDone(_)
BeforeDone(lines) ==
    IF lines = <<>> \/ IsDoneLine(Head(lines)) THEN <<>>
    ELSE <<Head(lines)>> \o BeforeDone(Tail(lines))

\* C12: the accumulated content of a turn holds the fragments of the lines that
\* came before the first [DONE] line only: no line after it, in the same chunk or
\* a later one, adds a fragment, and the [DONE] line adds none.
C12_NothingAppliedAfterDone ==
    \A t \in Turns :
        pc[t] = "read" =>
            acc[t] = ContentOf(BeforeDone(DecodedLines(Chunks(body[t]), nread[t])))

\* C13: the step that decodes a chunk holding a content line, a data: line whose
\* payload is not JSON, a line without the prefix and a second content line
\* applies both fragments in order; the turn goes on, its placeholder is neither
\* removed nor replaced and no notification is emitted.
C13_MalformedLineSkipped ==
    [][\A t \in Turns :
          (body'[t] = "malformed" /\ nread'[t] = nread[t] + 1) =>
              /\ acc'[t] = acc[t] \o Hel \o Lo
              /\ pc'[t] = "read" /\ outcome'[t] = "none"
              /\ toasts' = toasts
              /\ Len(messages') = Len(messages)
              /\ \A i \in 1..Len(messages) :
                    IF messages[i].id = AssistantId(t)
                    THEN messages'[i] = [messages[i] EXCEPT !.content = acc'[t]]
                    ELSE messages'[i] = messages[i]]_vars

C13_Witness ==
    \E t \in Turns :
        /\ body[t] = "malformed" /\ nread[t] = 1
        /\ toasts = 0
        /\ \E i \in 1..Len(messages) :
              /\ messages[i].id = AssistantId(t)
              /\ messages[i].content = Hel \o Lo
              /\ messages[i].isStreaming

\* The step is a sendMessage call that got past the empty-input check.
SendsRequest == lastOp'.op = "sendMessage" /\ lastOp'.turn # 0

\* C14: a request holds nothing of an assistant record that is streaming or has
\* empty content, neither in the snapshot the call closes over nor in the
\* transcript at the call, and its last entry is the user message of the call.
C14_RequestExcludesUnfinished ==
    [][SendsRequest =>
          LET request == lastOp'.request
              closure == rendered
              last == request[Len(request)]
          IN  /\ Len(request) = Len(closure) + 1
              /\ last.role = "user"
              /\ \E j \in 1..Len(messages') :
                    /\ messages'[j].id = UserId(lastOp'.turn)
                    /\ messages'[j].content = last.content
                    /\ CountId(messages, messages'[j].id) = 0
              /\ \A i \in 1..Len(closure) :
                    /\ request[i] = [role |-> closure[i].role, content |-> closure[i].content]
                    /\ closure[i].role = "assistant" =>
                          /\ request[i].content # <<>>
                          /\ ~closure[i].isStreaming
                          /\ \A j \in 1..Len(messages) :
                                messages[j].id = closure[i].id => ~messages[j].isStreaming]_vars

\* A second call made while the first turn streams with content: the request holds
\* the two user messages and nothing of the streaming record.
C14_Witness ==
    /\ lastOp.op = "sendMessage" /\ lastOp.turn = 2
    /\ Len(lastOp.request) = 2
    /\ \E i \in 1..Len(messages) :
          /\ messages[i].id = AssistantId(1)
          /\ messages[i].isStreaming
          /\ messages[i].content = Hel

\* The records of a transcript a request has to carry: the user records and the
\* finalized assistant records with content.
PriorRecords(msgs) ==
    SelectSeq(msgs, LAMBDA msg :
        msg.role = "user" \/ (msg.role = "assistant" /\ ~msg.isStreaming /\ msg.content # <<>>))

\* C15: a request holds, in transcript order, every user record and every finalized
\* non-empty assistant record of the transcript at the call, then the new user
\* message.
C15_RequestHoldsWholeTranscript ==
    [][SendsRequest =>
          LET prior == PriorRecords(messages)
          IN  lastOp'.request =
                  [i \in 1..(Len(prior) + 1) |->
                      IF i <= Len(prior)
                      THEN [role |-> prior[i].role, content |-> prior[i].content]
                      ELSE [role |-> "user", content |-> userText'[lastOp'.turn]]]]_vars

\* C16: in every step, an assistant record that stays in the transcript keeps its
\* content as a prefix of the new content while it is streaming, and stays exactly
\* as it is once its streaming flag is false.
C16_AppendOnlyThenImmutable ==
    [][\A i \in 1..Len(messages), j \in 1..Len(messages') :
          (messages[i].role = "assistant" /\ messages'[j].id = messages[i].id) =>
              IF messages[i].isStreaming
              THEN StartsWith(messages'[j].content, messages[i].content)
              ELSE messages'[j] = messages[i]]_vars

\* A turn cancelled with partial content whose record is as it was while a later
\* turn streams its second fragment.
C16_Witness ==
    /\ outcome[1] = "cancelled"
    /\ \E i \in 1..Len(messages) :
          /\ messages[i].id = AssistantId(1)
          /\ messages[i].content = Hel
          /\ ~messages[i].isStreaming
    /\ \E i \in 1..Len(messages) :
          /\ messages[i].id = AssistantId(2)
          /\ messages[i].content = Hel \o Lo
          /\ messages[i].isStreaming

\* For each response body, the concatenation of the fragments of the lines of its
\* first n chunks, in chunk and line order.
FragmentsRead ==
    [response \in Responses |->
        [n \in 0..Len(Chunks(response)) |->
            ContentOf(DecodedLines(Chunks(response), n))]]

\* C17: while a turn reads its body, its accumulated content is the concatenation,
\* in chunk and line order, of the fragments of the lines decoded so far, and its
\* placeholder, while in the transcript, holds exactly that content; before the
\* first read the placeholder is empty.
C17_ContentIsFragmentsInOrder ==
    \A t \in Turns :
        /\ pc[t] = "read" => acc[t] = FragmentsRead[body[t]][nread[t]]
        /\ InFlight(t) =>
              \A i \in 1..Len(messages) :
                  messages[i].id = AssistantId(t) =>
                      messages[i].content = acc[t] /\ messages[i].isStreaming

\* Two turns at once, each with the fragments of its own body in order: one after
\* two chunks of one line, one after a chunk of several lines.
C17_Witness ==
    \E t, u \in Turns :
        /\ body[t] = "perLine" /\ nread[t] = 2
        /\ body[u] = "malformed" /\ nread[u] = 1
        /\ \A v \in {t, u} :
              \E i \in 1..Len(messages) :
                  messages[i].id = AssistantId(v) /\ messages[i].content = Hel \o Lo

\* C18: the step in which a turn completes (the reader signalled done) leaves the
\* transcript as it was except that the placeholder, when it is there, has
\* streaming = false; its content is the concatenation of all fragments of the body.
C18_CompletionFinalizesPlaceholder ==
    [][\A t \in Turns :
          (Ends(t) /\ outcome'[t] = "completed") =>
              /\ nread[t] = Len(Chunks(body[t]))
              /\ Len(messages') = Len(messages)
              /\ \A i \in 1..Len(messages) :
                    IF messages[i].id = AssistantId(t)
                    THEN messages'[i] =
                            [messages[i] EXCEPT
                                !.isStreaming = FALSE,
                                !.content = FragmentsRead[body[t]][Len(Chunks(body[t]))]]
                    ELSE messages'[i] = messages[i]]_vars

\* A turn completed with an empty body and one completed with two fragments.
C18_Witness ==
    /\ \A t \in Turns : outcome[t] = "completed"
    /\ \E i \in 1..Len(messages) :
          /\ messages[i].role = "assistant"
          /\ messages[i].content = <<>>
          /\ ~messages[i].isStreaming
    /\ \E i \in 1..Len(messages) :
          /\ messages[i].role = "assistant"
          /\ messages[i].content = Hel \o Lo
          /\ ~messages[i].isStreaming

\* Turn t is the only one with a request in flight.
OnlyInFlight(t) == InFlight(t) /\ \A u \in Turns \ {t} : ~InFlight(u)

\* C19: after a stopGeneration call made while a single request is in flight, that
\* turn is eventually cancelled, with the request handle null and its placeholder
\* not streaming.
C19_StopLeadsToCancelled ==
    \A t \in Turns :
        (lastOp.op = "stopGeneration" /\ OnlyInFlight(t)) ~>
            (/\ outcome[t] = "cancelled"
             /\ ref = 0
             /\ \A i \in 1..Len(messages) :
                   messages[i].id = AssistantId(t) => ~messages[i].isStreaming)

\* The records of a transcript other than the one with the id, in order.
Others(msgs, id) == SelectSeq(msgs, LAMBDA msg : msg.id # id)

\* The step applies the fragments of a chunk of turn t or ends turn t: the steps
\* that change the transcript through the placeholder id of t.
TargetsPlaceholder(t) == InFlight(t) /\ (nread'[t] # nread[t] \/ Ends(t))

\* C20: a step that applies fragments to, finalizes or removes the placeholder of a
\* turn leaves every other record as it was and where it was, and changes nothing
\* when no record has the placeholder id; no step changes a user record that stays
\* in the transcript.
C20_IdMutationsKeepOtherRecords ==
    [][/\ \A t \in Turns :
             TargetsPlaceholder(t) =>
                 /\ Others(messages', AssistantId(t)) = Others(messages, AssistantId(t))
                 /\ CountId(messages', AssistantId(t)) <= CountId(messages, AssistantId(t))
                 /\ CountId(messages, AssistantId(t)) = 0 => messages' = messages
       /\ \A i \in 1..Len(messages), j \in 1..Len(messages') :
             (messages[i].role = "user" /\ messages'[j].id = messages[i].id) =>
                 messages'[j] = messages[i]]_vars

\* A turn whose records clearMessages removed has applied a fragment since, beside
\* the untouched records of a later turn.
C20_Witness ==
    \E t, u \in Turns :
        /\ cleared[t] /\ pc[t] = "read" /\ acc[t] = Hel
        /\ CountId(messages, AssistantId(t)) = 0
        /\ ~cleared[u]
        /\ \E i \in 1..(Len(messages) - 1) :
              /\ messages[i].id = UserId(u)
              /\ messages[i].content = userText[u]
              /\ messages[i + 1].id = AssistantId(u)
              /\ messages[i + 1].isStreaming

\* C21: when no sendMessage call is in progress, no record of the transcript is
\* streaming: the derived isStreaming value is false.
C21_IdleMeansNotStreaming ==
    NoneInFlight => ~isStreaming(messages)

\* Both turns have ended, one cancelled with partial content and one completed.
C21_Witness ==
    /\ NoneInFlight
    /\ nturns = 2
    /\ \E t \in Turns : outcome[t] = "cancelled"
    /\ \E t \in Turns : outcome[t] = "completed"
    /\ CountRole(messages, "assistant") = 2
    /\ \E i \in 1..Len(messages) :
          messages[i].role = "assistant" /\ messages[i].content = Hel

\* C22: while two calls are in flight, a step that applies a chunk of one turn
\* gives that turn's placeholder the fragments of its own body read so far and
\* leaves every other record, the other turn's placeholder with them, as it was.
C22_FragmentsGoToOwnPlaceholder ==
    [][\A t, u \in Turns :
          (t # u /\ InFlight(t) /\ InFlight(u) /\ nread'[t] = nread[t] + 1) =>
              /\ Len(messages') = Len(messages)
              /\ \A i \in 1..Len(messages) :
                    IF messages[i].id = AssistantId(t)
                    THEN /\ messages'[i].id = AssistantId(t)
                         /\ messages'[i].content = FragmentsRead[body'[t]][nread'[t]]
                    ELSE messages'[i] = messages[i]]_vars

\* Two turns stream at once and their placeholders hold different contents, each
\* that of its own body.
C22_Witness ==
    \E t, u \in Turns :
        /\ body[t] = "split" /\ nread[t] = 2 /\ pc[t] = "read"
        /\ body[u] = "perLine" /\ nread[u] = 1 /\ pc[u] = "read"
        /\ \E i, j \in 1..Len(messages) :
              /\ messages[i].id = AssistantId(t) /\ messages[i].content = Lo
              /\ messages[j].id = AssistantId(u) /\ messages[j].content = Hel

\* C23: every assistant record of the transcript comes right after the user record
\* appended by the same sendMessage call.
C23_AssistantFollowsItsUser ==
    \A i \in 1..Len(messages) :
        messages[i].role = "assistant" =>
            /\ i > 1
            /\ messages[i - 1].role = "user"
            /\ \E t \in Turns :
                  messages[i].id = AssistantId(t) /\ messages[i - 1].id = UserId(t)

\* After overlapping calls of which the first failed: two user records, then the
\* placeholder of the second call.
C23_Witness ==
    /\ Len(messages) = 3
    /\ outcome[1] = "failed"
    /\ messages[1].id = UserId(1)
    /\ messages[2].id = UserId(2)
    /\ messages[3].id = AssistantId(2)
    /\ messages[3].content = Hel

====
